---------------------------- MODULE Spec2Model ----------------------------
(***************************************************************************)
(* Domain-input normalisation and TLD suggestions of the domain-lookup UI. *)
(*                                                                         *)
(* A JavaScript string is a sequence of characters; a character is a       *)
(* one-element string.  A character outside ASCII is written by its code   *)
(* point ("U+FF0C" is the full-width comma).                               *)
(***************************************************************************)
EXTENDS Integers, Sequences, FiniteSets, TLC

(***************************************************************************)
(* Characters                                                              *)
(***************************************************************************)
Letters ==
  << "a", "b", "c", "d", "e", "f", "g", "h", "i", "j", "k", "l", "m",
     "n", "o", "p", "q", "r", "s", "t", "u", "v", "w", "x", "y", "z" >>

LowerChars == { Letters[i] : i \in 1..Len(Letters) }

DigitChars == { "0", "1", "2", "3", "4", "5", "6", "7", "8", "9" }

\* The characters the sanitising regular expression /[^a-z0-9.-]/g keeps.
LegalChars == LowerChars \cup DigitChars \cup { ".", "-" }

\* What \s and String.prototype.trim treat as white space (U+3000 is the
\* ideographic space).
SpaceChars == { " ", "\t", "U+3000" }

\* U+FF0C full-width comma, U+3002 ideographic full stop: the class [，。].
ChinesePunct == { "U+FF0C", "U+3002" }

\* Characters outside ASCII.
NonAscii == { "U+FF0C", "U+3002", "U+FF0E", "U+00E9", "U+3000" }

\* Characters outside the printable range of /[^ -~]/.
NonPrintable == NonAscii \cup { "\t" }

(***************************************************************************)
(* String primitives                                                       *)
(***************************************************************************)
IsPrefix(p, s) == Len(p) <= Len(s) /\ SubSeq(s, 1, Len(p)) = p

IsSuffix(p, s) ==
  Len(p) <= Len(s) /\ SubSeq(s, Len(s) - Len(p) + 1, Len(s)) = p

Drop(s, n) == SubSeq(s, n + 1, Len(s))

Includes(s, c) == \E i \in 1..Len(s) : s[i] = c

\* Number of occurrences of character c in s.
RECURSIVE Count(_, _)
Count(s, c) ==
  IF s = << >> THEN 0
  ELSE (IF Head(s) = c THEN 1 ELSE 0) + Count(Tail(s), c)

\* Concatenation of a sequence of strings.
RECURSIVE Concat(_)
Concat(ss) == IF ss = << >> THEN << >> ELSE Head(ss) \o Concat(Tail(ss))

\* Array.prototype.join(sep).
RECURSIVE Join(_, _)
Join(ss, sep) ==
  IF ss = << >> THEN << >>
  ELSE IF Len(ss) = 1 THEN ss[1]
  ELSE ss[1] \o sep \o Join(Tail(ss), sep)

\* String.prototype.split(c) for a one-character separator: "" gives [""].
RECURSIVE Split(_, _)
Split(s, c) ==
  IF ~Includes(s, c) THEN << s >>
  ELSE LET i == CHOOSE k \in 1..Len(s) :
                  s[k] = c /\ \A j \in 1..(k - 1) : s[j] # c
       IN  << SubSeq(s, 1, i - 1) >> \o Split(Drop(s, i), c)

toLowerCase(s) ==
  [ i \in 1..Len(s) |->
      CASE s[i] = "A" -> "a"
        [] s[i] = "W" -> "w"
        [] s[i] = "H" -> "h"
        [] OTHER -> s[i] ]

RECURSIVE trimStart(_)
trimStart(s) ==
  IF s # << >> /\ Head(s) \in SpaceChars THEN trimStart(Tail(s)) ELSE s

RECURSIVE trimEnd(_)
trimEnd(s) ==
  IF s # << >> /\ s[Len(s)] \in SpaceChars
  THEN trimEnd(SubSeq(s, 1, Len(s) - 1))
  ELSE s

trim(s) == trimEnd(trimStart(s))

(***************************************************************************)
(* extractDomain, step by step                                             *)
(***************************************************************************)
HTTP == << "h", "t", "t", "p", ":", "/", "/" >>
HTTPS == << "h", "t", "t", "p", "s", ":", "/", "/" >>
FTP == << "f", "t", "p", ":", "/", "/" >>
WWW == << "w", "w", "w", "." >>

\* A slip: the pattern is anchored and has no g flag.
stripHttpLeading(s) ==
  IF IsPrefix(HTTPS, s) THEN Drop(s, Len(HTTPS))
  ELSE IF IsPrefix(HTTP, s) THEN Drop(s, Len(HTTP))
  ELSE s

\* .replace(/https?:\/\//g, ''): every match, left to right, one pass.
RECURSIVE stripHttp(_)
stripHttp(s) ==
  IF s = << >> THEN << >>
  ELSE IF IsPrefix(HTTPS, s) THEN stripHttp(Drop(s, Len(HTTPS)))
  ELSE IF IsPrefix(HTTP, s) THEN stripHttp(Drop(s, Len(HTTP)))
  ELSE << Head(s) >> \o stripHttp(Tail(s))

\* .replace(/ftp:\/\//g, '')
RECURSIVE stripFtp(_)
stripFtp(s) ==
  IF s = << >> THEN << >>
  ELSE IF IsPrefix(FTP, s) THEN stripFtp(Drop(s, Len(FTP)))
  ELSE << Head(s) >> \o stripFtp(Tail(s))

stripProtocol(s) == stripFtp(stripHttp(s))

\* .replace(/^www\./, '')
stripWww(s) == IF IsPrefix(WWW, s) THEN Drop(s, Len(WWW)) ELSE s


\* A slip: only the full-width comma is replaced.
replaceCommaOnly(s) ==
  [ i \in 1..Len(s) |-> IF s[i] = "U+FF0C" THEN "." ELSE s[i] ]

\* .replace(/[，。]/g, '.')
replaceChinesePunct(s) ==
  [ i \in 1..Len(s) |-> IF s[i] \in ChinesePunct THEN "." ELSE s[i] ]

\* .replace(/\s+/g, '.'): each maximal run of white space becomes one dot.
RECURSIVE spacesToDot(_)
spacesToDot(s) ==
  IF s = << >> THEN << >>
  ELSE IF Head(s) \in SpaceChars
       THEN << "." >> \o spacesToDot(trimStart(s))
       ELSE << Head(s) >> \o spacesToDot(Tail(s))

\* A slip: the path is not cut off.
keepPath(s) == s

\* .split('/')[0]
dropPath(s) == Split(s, "/")[1]

\* A slip: .split('@')[1], the text after the first "@".
afterFirstAt(s) ==
  LET parts == Split(s, "@")
  IN  IF Len(parts) >= 2 THEN parts[2] ELSE s

\* .split('@').pop() || ''
dropEmailPrefix(s) == LET parts == Split(s, "@") IN parts[Len(parts)]

\* A slip: the regular expression without its g flag removes one character.
RECURSIVE removeFirstIllegal(_)
removeFirstIllegal(v) ==
  IF v = << >> THEN << >>
  ELSE IF Head(v) \notin LegalChars THEN Tail(v)
  ELSE << Head(v) >> \o removeFirstIllegal(Tail(v))

\* v.replace(/[^a-z0-9.-]/g, '')
keepLegal(v) == SelectSeq(v, LAMBDA c : c \in LegalChars)

\* v.replace(/\.{2,}/g, '.')
RECURSIVE mergeDots(_)
mergeDots(v) ==
  IF Len(v) < 2 THEN v
  ELSE IF v[1] = "." /\ v[2] = "." THEN mergeDots(Tail(v))
  ELSE << Head(v) >> \o mergeDots(Tail(v))

\* parts.length > 5  and  parts.slice(-4)
MaxParts == 5
KeptParts == 4

\* A slip: parts.length >= 5.
limitPartsFromFive(v) ==
  LET parts == Split(v, ".")
  IN  IF Len(parts) >= MaxParts
      THEN Join(SubSeq(parts, Len(parts) - KeptParts + 1, Len(parts)), <<".">>)
      ELSE v

\* const parts = v.split('.'); if (parts.length > 5) v = parts.slice(-4).join('.')
limitParts(v) ==
  LET parts == Split(v, ".")
  IN  IF Len(parts) > MaxParts
      THEN Join(SubSeq(parts, Len(parts) - KeptParts + 1, Len(parts)), <<".">>)
      ELSE v

\* /[^ -~]/.test(v)
hasNonPrintable(v) == \E i \in 1..Len(v) : v[i] \in NonPrintable

\* punycode.toASCII(v): the separators U+3002 and U+FF0E count as dots, and
\* every label with a character outside ASCII is replaced by "xn--", its
\* ASCII characters, a "-" when there are any, and the encoded deltas.  The
\* digits of the deltas are abstracted to one group "9ca" per encoded
\* character.
punyLabel(label) ==
  LET isBasic(c) == c \notin NonAscii
      basic == SelectSeq(label, isBasic)
      extra == SelectSeq(label, LAMBDA c : ~isBasic(c))
  IN  IF extra = << >> THEN label
      ELSE << "x", "n", "-", "-" >> \o basic
             \o (IF basic = << >> THEN << >> ELSE << "-" >>)
             \o Concat([ i \in 1..Len(extra) |-> << "9", "c", "a" >> ])

toASCII(v) ==
  LET dotted == [ i \in 1..Len(v) |->
                    IF v[i] \in { "U+3002", "U+FF0E" } THEN "." ELSE v[i] ]
      labels == Split(dotted, ".")
  IN  Join([ i \in 1..Len(labels) |-> punyLabel(labels[i]) ], << "." >>)

\* try { if (/[^ -~]/.test(v)) v = punycode.toASCII(v) } catch {}
toPunycode(v) == IF hasNonPrintable(v) THEN toASCII(v) ELSE v

\* The hostname part: the chain of calls up to .split('@').pop().
hostPart(raw) ==
  dropEmailPrefix(
    dropPath(
      spacesToDot(
        replaceChinesePunct(
          stripWww(stripProtocol(trim(toLowerCase(raw))))))))

\* The sanitised input: v before the label count is looked at.
sanitize(raw) == mergeDots(keepLegal(hostPart(raw)))

extractDomain(raw) ==
  IF raw = << >> THEN << >>
  ELSE toPunycode(limitParts(sanitize(raw)))

\* autoTld: if (!v) return v; if (v.includes('.')) return v; return v + '.com'
DOTCOM == << ".", "c", "o", "m" >>

\* A slip: the test for a dot is missing.
autoTldAlways(v) == IF v = << >> THEN v ELSE v \o DOTCOM

autoTld(v) ==
  IF v = << >> THEN v
  ELSE IF Includes(v, ".") THEN v
  ELSE v \o DOTCOM

\* cleanDomainInput of the other DomainSearch variant.
\* .replace(/[, ]+/g, '.'): each run of commas and spaces becomes one dot.
RECURSIVE commaSpaceToDot(_)
commaSpaceToDot(s) ==
  IF s = << >> THEN << >>
  ELSE IF Head(s) \in { ",", " " }
       THEN LET RECURSIVE skip(_)
                skip(t) == IF t # << >> /\ Head(t) \in { ",", " " }
                           THEN skip(Tail(t)) ELSE t
            IN  << "." >> \o commaSpaceToDot(skip(s))
       ELSE << Head(s) >> \o commaSpaceToDot(Tail(s))

cleanDomainInput(value) ==
  LET cleaned ==
        keepLegal(mergeDots(commaSpaceToDot(
          replaceChinesePunct(trim(toLowerCase(value))))))
      parts == Split(cleaned, ".")
  IN  IF Len(parts) > MaxParts
      THEN Join(SubSeq(parts, Len(parts) - KeptParts + 1, Len(parts)), <<".">>)
      ELSE cleaned

(***************************************************************************)
(* getSuggestions of useTldSuggestions                                     *)
(***************************************************************************)
COMMON_TLDS ==
  << << "c", "o", "m" >>, << "n", "e", "t" >>, << "o", "r", "g" >>,
     << "i", "o" >>, << "c", "o" >>, << "a", "i" >>, << "a", "p", "p" >>,
     << "d", "e", "v" >>, << "c", "n" >>, << "r", "w" >> >>

\* Array.prototype.indexOf: the position counted from 0, or -1.
indexOf(arr, x) ==
  IF \E i \in 1..Len(arr) : arr[i] = x
  THEN (CHOOSE i \in 1..Len(arr) :
          arr[i] = x /\ \A j \in 1..(i - 1) : arr[j] # x) - 1
  ELSE -1

CharRank(c) == CHOOSE i \in 1..Len(Letters) : Letters[i] = c

\* a.localeCompare(b) on labels of lower-case letters: negative, 0, positive.
RECURSIVE localeCompare(_, _)
localeCompare(a, b) ==
  IF a = << >> /\ b = << >> THEN 0
  ELSE IF a = << >> THEN -1
  ELSE IF b = << >> THEN 1
  ELSE IF Head(a) = Head(b) THEN localeCompare(Tail(a), Tail(b))
  ELSE IF CharRank(Head(a)) < CharRank(Head(b)) THEN -1
  ELSE 1

\* The comparator handed to sort.
compareTlds(a, b) ==
  LET aCommon == indexOf(COMMON_TLDS, a)
      bCommon == indexOf(COMMON_TLDS, b)
  IN  IF aCommon # -1 /\ bCommon = -1 THEN -1
      ELSE IF aCommon = -1 /\ bCommon # -1 THEN 1
      ELSE IF aCommon # -1 /\ bCommon # -1 THEN aCommon - bCommon
      ELSE localeCompare(a, b)

\* Array.prototype.sort with that comparator (a stable sort).
RECURSIVE insertSorted(_, _)
insertSorted(sorted, x) ==
  IF sorted = << >> THEN << x >>
  ELSE IF compareTlds(Head(sorted), x) <= 0
       THEN << Head(sorted) >> \o insertSorted(Tail(sorted), x)
       ELSE << x >> \o sorted

RECURSIVE sortTlds(_)
sortTlds(arr) ==
  IF arr = << >> THEN << >>
  ELSE insertSorted(sortTlds(SubSeq(arr, 1, Len(arr) - 1)), arr[Len(arr)])

\* Array.prototype.slice(0, n)
Take(arr, n) == SubSeq(arr, 1, IF n < Len(arr) THEN n ELSE Len(arr))

\* The branch for an input with a dot: prefix + "." + partial label.
completeTld(tlds, trimmed, maxResults) ==
  LET parts == Split(trimmed, ".")
      prefix == Join(SubSeq(parts, 1, Len(parts) - 1), << "." >>)
      tldPart == parts[Len(parts)]
      matchingTlds ==
        Take(SelectSeq(tlds, LAMBDA tld : IsPrefix(tldPart, tld)),
             maxResults * 2)
      shown == Take(sortTlds(matchingTlds), maxResults)
  IN  IF prefix = << >> THEN << >>
      ELSE [ i \in 1..Len(shown) |-> prefix \o << "." >> \o shown[i] ]

\* The branch for an input without a dot: the label equal to the input
\* first, then the common labels the label list has.
RECURSIVE pushCommon(_, _, _, _)
pushCommon(suggestions, tlds, trimmed, k) ==
  IF k > Len(COMMON_TLDS) THEN suggestions
  ELSE LET tld == COMMON_TLDS[k]
           has == \E i \in 1..Len(tlds) : tlds[i] = tld
           seen == \E i \in 1..Len(suggestions) :
                     IsSuffix(<< "." >> \o tld, suggestions[i])
       IN  pushCommon(
             IF has /\ ~seen
             THEN Append(suggestions, trimmed \o << "." >> \o tld)
             ELSE suggestions,
             tlds, trimmed, k + 1)

\* A slip: the common labels are pushed whether the list has them or not.
completeNameUnfiltered(tlds, trimmed, maxResults) ==
  LET matchingTld == \E i \in 1..Len(tlds) : tlds[i] = trimmed
      first == IF matchingTld
               THEN << trimmed \o << "." >> \o trimmed >>
               ELSE << >>
  IN  Take(pushCommon(first, COMMON_TLDS, trimmed, 1), maxResults)

completeName(tlds, trimmed, maxResults) ==
  LET matchingTld == \E i \in 1..Len(tlds) : tlds[i] = trimmed
      first == IF matchingTld
               THEN << trimmed \o << "." >> \o trimmed >>
               ELSE << >>
  IN  Take(pushCommon(first, tlds, trimmed, 1), maxResults)

getSuggestions(tlds, input, maxResults) ==
  LET trimmed == toLowerCase(trim(input))
  IN  IF trim(input) = << >> THEN << >>
      ELSE IF Includes(trimmed, ".")
           THEN completeTld(tlds, trimmed, maxResults)
           ELSE completeName(tlds, trimmed, maxResults)

(***************************************************************************)
(* The inputs of the normaliser                                            *)
(***************************************************************************)
\* Bounds of the inputs, in fragments, separator characters and labels.
MaxFrags == 3
MaxPart == 2
MaxSep == 2
MaxLabels == 7

SeqsUpTo(S, n) == UNION { [1..k -> S] : k \in 0..n }

\* Raw text typed or pasted: any concatenation of these fragments.
Fragments ==
  { HTTP, HTTPS, FTP, WWW, << "a" >>, << "W" >>, << "1" >>, << "-" >>,
    << "." >>, << "/" >>, << "@" >>, << ":" >>, << " " >>, << "!" >>,
    << "U+FF0C" >>, << "U+00E9" >> }

\* Canonical hostnames: one to five non-empty labels over [a-z0-9-].
HostLabels == { << "a", "-", "1" >>, << "w", "w", "w" >> }
Hosts ==
  { Join(ls, << "." >>) :
      ls \in UNION { [1..k -> HostLabels] : k \in 1..MaxParts } }

UrlSchemes == { HTTP, HTTPS }
PathFragments ==
  { << "p" >>, << "/" >>, << "@" >>, << "." >>, << " " >>, HTTP }
LocalFragments ==
  { << "u" >>, << "/" >>, << "@" >>, << "." >>, << " " >>, WWW }

\* Single labels and the separators between two of them.
Labels == { << "a" >>, << "w", "w", "w" >>, << "c", "o", "m" >> }
SepChars == { " ", "U+3000", "U+FF0C", "U+3002", "U+FF0E" }
Separators == SeqsUpTo(SepChars, MaxSep) \ { << >> }

Given(form, head, mid, host, tail) ==
  [ form |-> form, head |-> head, mid |-> mid, host |-> host, tail |-> tail ]

\* The raw inputs with free text of at most frags fragments and paths and
\* local parts of at most parts fragments.
Givens(frags, parts) ==
  { Given("free", << >>, << >>, Concat(fs), << >>) :
      fs \in SeqsUpTo(Fragments, frags) }
  \cup
  { Given("url", s, WWW, h, << "/" >> \o Concat(p)) :
      s \in UrlSchemes,
      h \in { x \in Hosts : ~IsPrefix(WWW, x) },
      p \in SeqsUpTo(PathFragments, parts) }
  \cup
  { Given("email", Concat(l), << "@" >>, h, << >>) :
      l \in SeqsUpTo(LocalFragments, parts), h \in Hosts }
  \cup
  { Given("sep", a, sep, b, << >>) :
      a \in Labels, sep \in Separators, b \in Labels }
  \cup
  { Given("labels", << >>, << >>, Join(ls, << "." >>), << >>) :
      ls \in UNION { [1..k -> { << "a" >>, << "b" >> }] : k \in 1..MaxLabels } }

\* The inputs the specification gives as examples.
EXAMPLE == << "e", "x", "a", "m", "p", "l", "e" >>
EXAMPLE_COM == EXAMPLE \o << ".", "c", "o", "m" >>
EXAMPLE_IO == EXAMPLE \o << ".", "i", "o" >>
ABCDEF == << "a", ".", "b", ".", "c", ".", "d", ".", "e", ".", "f" >>
CDEF == << "c", ".", "d", ".", "e", ".", "f" >>

Examples ==
  { Given("url", HTTPS, WWW, EXAMPLE_COM, << "/", "p", "a", "t", "h" >>),
    Given("email", << "u", "s", "e", "r" >>, << "@" >>, EXAMPLE_COM, << >>),
    Given("sep", EXAMPLE, << "U+FF0C" >>, << "c", "o", "m" >>, << >>),
    Given("labels", << >>, << >>, ABCDEF, << >>),
    Given("free", << >>, << >>, EXAMPLE, << >>),
    Given("free", << >>, << >>, EXAMPLE_IO, << >>) }

RawOf(g) == g.head \o g.mid \o g.host \o g.tail

(***************************************************************************)
(* The inputs of getSuggestions                                            *)
(***************************************************************************)
\* Bounds: the length of the label list and the maxResults argument.
MaxTlds == 5
MaxResultsTried == 2

\* The labels a label list is drawn from.
TldPool ==
  { << "c", "a" >>, << "c", "b" >>, << "c", "o" >>, << "c", "o", "m" >>,
    << "i", "o" >>, << "n", "e", "t" >>, << "x", "y", "z" >> }

\* The list the provider returns for a set of labels: .order('tld').
RECURSIVE OrderedByTld(_)
OrderedByTld(S) ==
  IF S = { } THEN << >>
  ELSE LET least == CHOOSE x \in S :
                      \A y \in S : localeCompare(x, y) <= 0
       IN  << least >> \o OrderedByTld(S \ { least })

LabelLists ==
  { OrderedByTld(S) : S \in { T \in SUBSET TldPool : Cardinality(T) <= MaxTlds } }

SuggestInputs ==
  { << >>,
    << "x" >>,
    << "c", "o" >>,
    << "i", "o" >>,
    << "x", "y", "z" >>,
    << "x", "." >>,
    << "x", ".", "c" >>,
    << "x", ".", "c", "o" >>,
    << "x", ".", "n" >>,
    << "x", ".", "q" >>,
    << "x", ".", "y", ".", "c" >>,
    << ".", "c" >>,
    << " " >>,
    << " ", "W", ".", "c" >> }

(***************************************************************************)
(* State                                                                   *)
(***************************************************************************)
VARIABLES
  given,      \* how the raw input was put together
  raw,        \* the raw input
  stage,      \* which calls have been made on it
  canon,      \* extractDomain(raw)
  again,      \* extractDomain(canon)
  completed,  \* autoTld(canon)
  cleaned,    \* cleanDomainInput(raw)
  allTlds,    \* the label list of the hook
  input,      \* the argument of getSuggestions
  maxResults, \* its second argument
  called,     \* whether getSuggestions has returned
  result      \* what it returned

\* A hook instance over several calls of its getSuggestions.
VARIABLES
  loaded,     \* the label list the provider delivered to the hook
  noted,      \* one earlier call: its arguments, label list and result
  ncalls      \* the number of calls made

\* The module-level cache of useTldSuggestions and the mounted hooks.
VARIABLES
  cachedTlds,   \* let cachedTlds: string[] | null
  cachePromise, \* let cachePromise: Promise<string[]> | null
  fetchCount,   \* how many requests were sent to the provider
  inFlight,     \* how many of them have not come back
  outcome,      \* how the last request came back
  hooks         \* the instances of useTldSuggestions

\* The DomainSearch component inside DomainLookup.
VARIABLES
  domain,       \* the field value: const [domain, setDomain] of DomainLookup
  suggestions,  \* const [suggestions, setSuggestions]
  show,         \* const [show, setShow]
  index,        \* const [index, setIndex]
  ctrlTlds,     \* allTlds of the component's useTldSuggestions
  timers,       \* the pending timers of the debounce effect
  loading,      \* const [loading, setLoading] of DomainLookup
  searches,     \* the pending setTimeout(onSearch, 0) calls
  lookup,       \* the call of handleLookupWithDomain in the last step
  shownFor,     \* the field value suggestions was computed from
  event         \* the last event handled

\* The query cache of useQueryCache in localStorage.
VARIABLES
  cache,        \* the stored object: its entries in key order
  now,          \* Date.now()
  cacheOp       \* the last call: its argument, result and the cache before

cacheVars == << cache, now, cacheOp >>

\* The recent-query list of RecentQueries in localStorage.
VARIABLES
  variant,      \* which of the two RecentQueries modules is in use
  queries,      \* the stored list
  recentOp      \* the last call and its argument

recentVars == << variant, queries, recentOp >>

\* The lookups of DomainLookup and what it displays.
VARIABLES
  lookups,      \* the calls of handleLookupWithDomain, in the order made
  shown         \* result and error: which call's response is displayed

lookupVars == << lookups, shown >>

normVars == << given, raw, stage, canon, again, completed, cleaned >>

suggestVars == << allTlds, input, maxResults, called, result >>

callVars == << loaded, noted, ncalls >>

fetchVars ==
  << cachedTlds, cachePromise, fetchCount, inFlight, outcome, hooks >>

ctrlVars ==
  << domain, suggestions, show, index, ctrlTlds, timers, loading, searches,
     lookup, shownFor, event >>

vars ==
  << normVars, suggestVars, callVars, fetchVars,
     ctrlVars, cacheVars, recentVars, lookupVars >>

\* What the actions of one part leave alone.
outsideNorm ==
  << suggestVars, callVars, fetchVars, ctrlVars,
     cacheVars, recentVars, lookupVars >>
outsideSuggest ==
  << normVars, callVars, fetchVars, ctrlVars,
     cacheVars, recentVars, lookupVars >>
outsideCalls ==
  << normVars, fetchVars, ctrlVars, cacheVars,
     recentVars, lookupVars >>
outsideFetch ==
  << normVars, suggestVars, callVars, ctrlVars,
     cacheVars, recentVars, lookupVars >>
outsideCtrl ==
  << normVars, suggestVars, callVars, fetchVars,
     cacheVars, recentVars, lookupVars >>
outsideCache ==
  << normVars, suggestVars, callVars, fetchVars,
     ctrlVars, recentVars, lookupVars >>
outsideRecent ==
  << normVars, suggestVars, callVars, fetchVars,
     ctrlVars, cache, cacheOp, lookupVars >>
outsideLookup ==
  << normVars, suggestVars, callVars, fetchVars, cacheVars, recentVars,
     suggestions, show, index, ctrlTlds, timers, searches, lookup, shownFor,
     event >>

\* The value undefined, which is no string.
UNDEFINED == << "undefined" >>

NoLookup == [ made |-> FALSE, arg |-> << >>, written |-> << >> ]

Event(kind, text, before, pending) ==
  [ kind |-> kind, text |-> text, before |-> before, pending |-> pending ]

\* What an event without a text leaves as the last event.
Handled == Event("handled", << >>, << >>, FALSE)

\* The states of the controller: the box is rendered when show is set and the
\* list is not empty.
Suggesting == show /\ suggestions # << >>

Idle == ~Suggesting

\* The component before it is mounted.
CtrlIdle ==
  /\ domain = << >>
  /\ suggestions = << >>
  /\ show = FALSE
  /\ index = -1
  /\ ctrlTlds = << >>
  /\ timers = { }
  /\ loading = FALSE
  /\ searches = { }
  /\ lookup = NoLookup
  /\ shownFor = << >>
  /\ event = Event("none", << >>, << >>, FALSE)

NothingShown == [ kind |-> "none", of |-> 0 ]

LookupIdle ==
  /\ lookups = << >>
  /\ shown = NothingShown

RecentOp(kind, arg) == [ kind |-> kind, arg |-> arg ]

RecentIdle ==
  /\ variant = "first"
  /\ queries = << >>
  /\ recentOp = RecentOp("none", << >>)

NULL == [ null |-> TRUE ]

CacheOp(kind, arg, returned, before) ==
  [ kind |-> kind, arg |-> arg, returned |-> returned, before |-> before ]

CacheIdle ==
  /\ cache = << >>
  /\ now = 0
  /\ cacheOp = CacheOp("none", << >>, NULL, << >>)

\* Bound: the number of hook instances that are mounted.
MaxMounts == 3

Hook == 1..MaxMounts

\* null and a label list, for cachedTlds.
NullTlds == [ null |-> TRUE, tlds |-> << >> ]
SomeTlds(l) == [ null |-> FALSE, tlds |-> l ]

\* null, and a promise that is pending, fulfilled with a value or rejected.
NoPromise == [ state |-> "null", value |-> << >> ]
Promise(st, v) == [ state |-> st, value |-> v ]

Unmounted ==
  [ phase |-> "unmounted", allTlds |-> << >>, loading |-> FALSE,
    late |-> FALSE ]

FetchIdle ==
  /\ cachedTlds = NullTlds
  /\ cachePromise = NoPromise
  /\ fetchCount = 0
  /\ inFlight = 0
  /\ outcome = "none"
  /\ hooks = [ h \in Hook |-> Unmounted ]

NoCall ==
  [ made |-> FALSE, at |-> 0, input |-> << >>, maxResults |-> 1,
    labels |-> << >>, result |-> << >> ]

CallsIdle ==
  /\ loaded = << >>
  /\ noted = NoCall
  /\ ncalls = 0

NormIdle ==
  /\ given = Given("free", << >>, << >>, << >>, << >>)
  /\ raw = << >>
  /\ stage = "raw"
  /\ canon = << >>
  /\ again = << >>
  /\ completed = << >>
  /\ cleaned = << >>

SuggestIdle ==
  /\ allTlds = << >>
  /\ input = << >>
  /\ maxResults = 1
  /\ called = FALSE
  /\ result = << >>

NormInit ==
  /\ given \in Givens(MaxFrags, MaxPart) \cup Examples
  /\ raw = RawOf(given)
  /\ stage = "raw"
  /\ canon = << >>
  /\ again = << >>
  /\ completed = << >>
  /\ cleaned = << >>
  /\ SuggestIdle
  /\ CallsIdle
  /\ FetchIdle
  /\ CtrlIdle
  /\ CacheIdle
  /\ RecentIdle
  /\ LookupIdle

\* onChange / onPaste: extractDomain on the raw text.
Normalize ==
  /\ stage = "raw"
  /\ canon' = extractDomain(raw)
  /\ stage' = "normalized"
  /\ UNCHANGED << given, raw, again, completed, cleaned >>
  /\ UNCHANGED outsideNorm

\* The debounce effect and handleSearch: extractDomain on the field value.
Renormalize ==
  /\ stage = "normalized"
  /\ again' = extractDomain(canon)
  /\ stage' = "renormalized"
  /\ UNCHANGED << given, raw, canon, completed, cleaned >>
  /\ UNCHANGED outsideNorm

\* autoTld on a normalised value.
Complete ==
  /\ stage = "normalized"
  /\ completed' = autoTld(canon)
  /\ stage' = "completed"
  /\ UNCHANGED << given, raw, canon, again, cleaned >>
  /\ UNCHANGED outsideNorm

\* onChange of the other variant: cleanDomainInput on the raw text.
Clean ==
  /\ stage = "raw"
  /\ cleaned' = cleanDomainInput(raw)
  /\ stage' = "cleaned"
  /\ UNCHANGED << given, raw, canon, again, completed >>
  /\ UNCHANGED outsideNorm

NormNext == Normalize \/ Renormalize \/ Complete \/ Clean

NormSpec == NormInit /\ [][NormNext]_vars

SuggestInit ==
  /\ allTlds \in LabelLists
  /\ input \in SuggestInputs
  /\ maxResults \in 1..MaxResultsTried
  /\ called = FALSE
  /\ result = << >>
  /\ NormIdle
  /\ CallsIdle
  /\ FetchIdle
  /\ CtrlIdle
  /\ CacheIdle
  /\ RecentIdle
  /\ LookupIdle

\* A call getSuggestions(input, maxResults) of the debounce effect.
Suggest ==
  /\ ~called
  /\ result' = getSuggestions(allTlds, input, maxResults)
  /\ called' = TRUE
  /\ UNCHANGED << allTlds, input, maxResults >>
  /\ UNCHANGED outsideSuggest

SuggestNext == Suggest

SuggestSpec == SuggestInit /\ [][SuggestNext]_vars

(***************************************************************************)
(* Repeated calls of getSuggestions on one hook instance                   *)
(***************************************************************************)
\* Bound: the number of calls.
MaxCalls == 3

CallInputs == { << "c", "o" >>, << "x", "." >>, << "x", ".", "c" >> }

\* The label lists delivered to the hook: three labels each.
CallLabelLists ==
  { OrderedByTld(S) : S \in { T \in SUBSET TldPool : Cardinality(T) = 3 } }

\* A slip: the label list itself is sorted, in place, by a call with a dot.
allTldsSortedInPlace(tlds, in, maxRes) ==
  IF Includes(toLowerCase(trim(in)), ".") THEN sortTlds(tlds) ELSE tlds

\* The hook's label list after a call: filter and slice make new arrays, so
\* the sort of the call is not a sort of allTlds.
allTldsAfterCall(tlds, in, maxRes) == tlds

CallsInit ==
  /\ CallsIdle
  /\ SuggestIdle
  /\ NormIdle
  /\ FetchIdle
  /\ CtrlIdle
  /\ CacheIdle
  /\ RecentIdle
  /\ LookupIdle

\* fetchTldsWithCache().then(tlds => setAllTlds(tlds))
LoadLabels ==
  /\ loaded = << >>
  /\ \E l \in CallLabelLists :
       /\ loaded' = l
       /\ allTlds' = l
  /\ UNCHANGED << input, maxResults, called, result, noted, ncalls >>
  /\ UNCHANGED outsideCalls

\* A call getSuggestions(in, maxRes); the call may be the one that is noted.
Call ==
  /\ ncalls < MaxCalls
  /\ \E in \in CallInputs, maxRes \in 1..MaxResultsTried, note \in BOOLEAN :
       /\ input' = in
       /\ maxResults' = maxRes
       /\ result' = getSuggestions(allTlds, in, maxRes)
       /\ allTlds' = allTldsAfterCall(allTlds, in, maxRes)
       /\ noted' = IF note /\ ~noted.made
                   THEN [ made |-> TRUE, at |-> ncalls + 1, input |-> in,
                          maxResults |-> maxRes, labels |-> loaded,
                          result |-> result' ]
                   ELSE noted
  /\ called' = TRUE
  /\ ncalls' = ncalls + 1
  /\ UNCHANGED loaded
  /\ UNCHANGED outsideCalls

CallsNext == LoadLabels \/ Call

CallsSpec == CallsInit /\ [][CallsNext]_vars

(***************************************************************************)
(* fetchTldsWithCache and the mount of useTldSuggestions                   *)
(***************************************************************************)
\* What the provider can answer: rows, an error result, neither, or a throw.
FetchedLists ==
  { << >>,
    << << "c", "o", "m" >> >>,
    << << "c", "o" >>, << "c", "o", "m" >>, << "i", "o" >> >> }

Outcomes == { "data", "error", "nodata", "throw" }

\* A slip: the test of cachePromise is missing.
startsFetchUnlessCached(cached, promise) == cached.null

\* if (cachedTlds) return cachedTlds; if (cachePromise) return cachePromise;
\* otherwise the request is sent.
startsFetch(cached, promise) == cached.null /\ promise.state = "null"

\* A slip: no try / catch around the request.
settledWithoutCatch(how, data) ==
  IF how = "data" THEN Promise("fulfilled", data)
  ELSE IF how = "throw" THEN Promise("rejected", << >>)
  ELSE Promise("fulfilled", << >>)

\* The promise of the async body once the request is back: the rows, or []
\* after an error result, no rows or a caught exception.
settled(how, data) ==
  IF how = "data" THEN Promise("fulfilled", data)
  ELSE Promise("fulfilled", << >>)

FetchInit ==
  /\ FetchIdle
  /\ NormIdle
  /\ SuggestIdle
  /\ CallsIdle
  /\ CtrlIdle
  /\ CacheIdle
  /\ RecentIdle
  /\ LookupIdle

\* The first render of a hook: useState(cachedTlds || []), useState(!cachedTlds).
Render(h) ==
  /\ hooks[h].phase = "unmounted"
  /\ hooks' = [ hooks EXCEPT ![h] =
                  [ phase |-> "rendered",
                    allTlds |-> cachedTlds.tlds,
                    loading |-> cachedTlds.null,
                    late |-> FALSE ] ]
  /\ UNCHANGED << cachedTlds, cachePromise, fetchCount, inFlight, outcome >>
  /\ UNCHANGED outsideFetch

\* The mount effect of a hook, with its call of fetchTldsWithCache.
Effect(h) ==
  /\ hooks[h].phase = "rendered"
  /\ IF ~cachedTlds.null
     THEN /\ hooks' = [ hooks EXCEPT ![h] =
                          [ phase |-> "settled",
                            allTlds |-> cachedTlds.tlds,
                            loading |-> FALSE,
                            late |-> TRUE ] ]
          /\ UNCHANGED << cachePromise, fetchCount, inFlight >>
     ELSE /\ hooks' = [ hooks EXCEPT ![h] =
                          [ @ EXCEPT !.phase = "waiting",
                                     !.late = (outcome # "none") ] ]
          /\ IF startsFetch(cachedTlds, cachePromise)
             THEN /\ cachePromise' = Promise("pending", << >>)
                  /\ fetchCount' = fetchCount + 1
                  /\ inFlight' = inFlight + 1
             ELSE UNCHANGED << cachePromise, fetchCount, inFlight >>
  /\ UNCHANGED << cachedTlds, outcome >>
  /\ UNCHANGED outsideFetch

\* The request comes back and the async body runs to its end.
Settle ==
  /\ inFlight > 0
  /\ \E how \in Outcomes, data \in FetchedLists :
       /\ outcome' = how
       /\ cachedTlds' = IF how = "data" THEN SomeTlds(data) ELSE cachedTlds
       /\ cachePromise' = settled(how, data)
  /\ inFlight' = inFlight - 1
  /\ UNCHANGED << fetchCount, hooks >>
  /\ UNCHANGED outsideFetch

\* .then(tlds => { setAllTlds(tlds); setLoading(false) }) of a waiting hook;
\* a rejected promise has no handler and leaves the hook loading.
Deliver(h) ==
  /\ hooks[h].phase = "waiting"
  /\ cachePromise.state \in { "fulfilled", "rejected" }
  /\ hooks' = [ hooks EXCEPT ![h] =
                  IF cachePromise.state = "fulfilled"
                  THEN [ @ EXCEPT !.phase = "settled",
                                  !.allTlds = cachePromise.value,
                                  !.loading = FALSE ]
                  ELSE [ @ EXCEPT !.phase = "failed" ] ]
  /\ UNCHANGED << cachedTlds, cachePromise, fetchCount, inFlight, outcome >>
  /\ UNCHANGED outsideFetch

FetchNext ==
  \/ \E h \in Hook : Render(h)
  \/ \E h \in Hook : Effect(h)
  \/ Settle
  \/ \E h \in Hook : Deliver(h)

FetchSpec == FetchInit /\ [][FetchNext]_vars

(***************************************************************************)
(* The DomainSearch component and its parent DomainLookup                  *)
(***************************************************************************)
\* Bound: the number of setTimeout(onSearch, 0) calls that are pending.
MaxSearches == 1

\* getSuggestions(cleaned): maxResults = 8.
DefaultMaxResults == 8

\* The values of the input element after an edit, the clipboard texts and
\* the label lists delivered.
TypedValues == { << >>, << "a" >>, << "a", "c" >> }

PastedTexts == { << "x", ".", "c", "o", "m" >>, << "b" >> }

CtrlLabelLists == { << << "c", "o", "m" >>, << "i", "o" >> >> }

\* extractDomain on a field value: if (!raw) return ''.
extractDomainOf(d) == IF d = UNDEFINED THEN << >> ELSE extractDomain(d)

\* suggestions[index] of JavaScript.
at(list, i) == IF 0 <= i /\ i < Len(list) THEN list[i + 1] ELSE UNDEFINED

Min(a, b) == IF a <= b THEN a ELSE b
Max(a, b) == IF a >= b THEN a ELSE b

\* A timer of the debounce effect holds the domain and the getSuggestions
\* (so the label list) of the render that set it.
Timer(d, tlds) == [ domain |-> d, tlds |-> tlds ]

\* A slip: the effect has no cleanup.
rescheduledWithoutCleanup(tms, d, tlds, changed) ==
  IF changed THEN tms \cup { Timer(d, tlds) } ELSE tms

\* A slip: the effect keeps a timer that is pending.
rescheduledUnlessPending(tms, d, tlds, changed) ==
  IF changed /\ tms = { } THEN { Timer(d, tlds) } ELSE tms

\* The debounce effect after a render: when domain or getSuggestions has
\* changed the cleanup clears the timer of the last run and a new one is set.
rescheduled(tms, d, tlds, changed) ==
  IF changed THEN { Timer(d, tlds) } ELSE tms

\* A slip: the pasted text is inserted into the field.
onPasteInserted(before, text) ==
  extractDomain((IF before = UNDEFINED THEN << >> ELSE before) \o text)

\* onPaste: preventDefault, then setDomain(extractDomain(text)).
onPasteCleaned(before, text) == extractDomain(text)

\* A slip: onChange completes the value.
onChangeCompleted(value) == autoTld(extractDomain(value))

\* onChange: setDomain(extractDomain(e.target.value)).
onChangeCleaned(value) == extractDomain(value)

IsAlnum(c) == c \in LowerChars \cup DigitChars

\* validateDomain on the trimmed argument:
\* /^[a-zA-Z0-9][a-zA-Z0-9-]{0,61}[a-zA-Z0-9]?\.[a-zA-Z]{2,}$/
validateDomain(d) ==
  LET v == trim(d)
  IN  \E k \in 2..Len(v) :
        /\ v[k] = "."
        /\ Len(v) - k >= 2
        /\ \A i \in (k + 1)..Len(v) : v[i] \in LowerChars
        /\ IsAlnum(v[1])
        /\ \A i \in 2..(k - 1) : IsAlnum(v[i]) \/ v[i] = "-"
        /\ k - 2 <= 62
        /\ (k - 2 = 62) => IsAlnum(v[k - 1])

\* DomainLookup mounts with domain '', DomainSearch with no suggestions, and
\* the debounce effect has run once.
CtrlInit ==
  /\ domain = << >>
  /\ suggestions = << >>
  /\ show = FALSE
  /\ index = -1
  /\ ctrlTlds = << >>
  /\ timers = { Timer(<< >>, << >>) }
  /\ loading = FALSE
  /\ searches = { }
  /\ lookup = NoLookup
  /\ shownFor = << >>
  /\ event = Event("mount", << >>, << >>, FALSE)
  /\ NormIdle
  /\ SuggestIdle
  /\ CallsIdle
  /\ FetchIdle
  /\ CacheIdle
  /\ RecentIdle
  /\ LookupIdle

\* onChange with the edited value of the input element.
Type ==
  /\ ~loading
  /\ \E value \in TypedValues :
       /\ domain' = onChangeCleaned(value)
       /\ event' = Event("type", value, domain, timers # { })
  /\ show' = TRUE
  /\ timers' = rescheduled(timers, domain', ctrlTlds, domain' # domain)
  /\ UNCHANGED << suggestions, index, ctrlTlds, loading, searches, shownFor >>
  /\ lookup' = NoLookup
  /\ UNCHANGED outsideCtrl

\* onPaste with the clipboard text.
Paste ==
  /\ ~loading
  /\ \E text \in PastedTexts :
       /\ domain' = onPasteCleaned(domain, text)
       /\ event' = Event("paste", text, domain, timers # { })
  /\ show' = TRUE
  /\ timers' = rescheduled(timers, domain', ctrlTlds, domain' # domain)
  /\ UNCHANGED << suggestions, index, ctrlTlds, loading, searches, shownFor >>
  /\ lookup' = NoLookup
  /\ UNCHANGED outsideCtrl

\* The timer of the debounce effect fires.
DebounceFire ==
  /\ \E tm \in timers :
       /\ timers' = timers \ { tm }
       /\ shownFor' = tm.domain
       /\ event' = Event("debounce", << >>, << >>, FALSE)
       /\ IF extractDomainOf(tm.domain) = << >>
          THEN /\ suggestions' = << >>
               /\ show' = FALSE
               /\ UNCHANGED index
          ELSE /\ suggestions' =
                    getSuggestions(tm.tlds, extractDomainOf(tm.domain),
                                   DefaultMaxResults)
               /\ index' = -1
               /\ show' = TRUE
  /\ UNCHANGED << domain, ctrlTlds, loading, searches >>
  /\ lookup' = NoLookup
  /\ UNCHANGED outsideCtrl

\* The component's hook gets the label list: getSuggestions changes and the
\* debounce effect runs again.
LabelLoad ==
  /\ ctrlTlds = << >>
  /\ \E l \in CtrlLabelLists :
       /\ ctrlTlds' = l
       /\ timers' = rescheduled(timers, domain, l, TRUE)
  /\ event' = Event("labels", << >>, << >>, FALSE)
  /\ UNCHANGED << domain, suggestions, show, index, loading, searches,
                  shownFor >>
  /\ lookup' = NoLookup
  /\ UNCHANGED outsideCtrl

ArrowDown ==
  /\ ~loading
  /\ show' = TRUE
  /\ index' = Min(index + 1, Len(suggestions) - 1)
  /\ event' = Handled
  /\ lookup' = NoLookup
  /\ UNCHANGED << domain, suggestions, ctrlTlds, timers, loading, searches,
                  shownFor >>
  /\ UNCHANGED outsideCtrl

ArrowUp ==
  /\ ~loading
  /\ index' = Max(index - 1, -1)
  /\ event' = Handled
  /\ lookup' = NoLookup
  /\ UNCHANGED << domain, suggestions, show, ctrlTlds, timers, loading,
                  searches, shownFor >>
  /\ UNCHANGED outsideCtrl

\* handleSearch: nothing on an empty value, otherwise the completed value is
\* written and onSearch of this render, which holds this render's domain,
\* is set to run.
handleSearch(e) ==
  /\ event' = e
  /\ lookup' = NoLookup
  /\ IF extractDomainOf(domain) = << >>
     THEN UNCHANGED << domain, show, timers, searches >>
     ELSE /\ Cardinality(searches) < MaxSearches
          /\ domain' = autoTld(extractDomainOf(domain))
          /\ show' = FALSE
          /\ timers' = rescheduled(timers, domain', ctrlTlds, domain' # domain)
          /\ searches' = searches \cup
                           { [ captured |-> domain, written |-> domain' ] }
  /\ UNCHANGED << suggestions, index, ctrlTlds, loading, shownFor >>
  /\ UNCHANGED outsideCtrl

\* Enter: the highlighted suggestion when the box is open, else handleSearch.
Enter ==
  /\ ~loading
  /\ IF show /\ index >= 0
     THEN /\ domain' = at(suggestions, index)
          /\ show' = FALSE
          /\ timers' = rescheduled(timers, domain', ctrlTlds, domain' # domain)
          /\ event' = Event("enter", << >>, << >>, FALSE)
          /\ lookup' = NoLookup
          /\ UNCHANGED << suggestions, index, ctrlTlds, loading, searches,
                          shownFor >>
          /\ UNCHANGED outsideCtrl
     ELSE handleSearch(Event("enter", << >>, << >>, FALSE))

\* The Search button.
ClickSearch ==
  /\ ~loading
  /\ handleSearch(Handled)

\* A slip: Escape also drops the highlight.
EscapeResetting ==
  /\ ~loading
  /\ show' = FALSE
  /\ index' = -1
  /\ event' = Event("escape", << >>, << >>, FALSE)
  /\ lookup' = NoLookup
  /\ UNCHANGED << domain, suggestions, ctrlTlds, timers, loading, searches,
                  shownFor >>
  /\ UNCHANGED outsideCtrl

Escape ==
  /\ ~loading
  /\ show' = FALSE
  /\ event' = Event("escape", << >>, << >>, FALSE)
  /\ lookup' = NoLookup
  /\ UNCHANGED << domain, suggestions, index, ctrlTlds, timers, loading,
                  searches, shownFor >>
  /\ UNCHANGED outsideCtrl

\* A mousedown outside the input and the box.
ClickOutside ==
  /\ show' = FALSE
  /\ event' = Handled
  /\ lookup' = NoLookup
  /\ UNCHANGED << domain, suggestions, index, ctrlTlds, timers, loading,
                  searches, shownFor >>
  /\ UNCHANGED outsideCtrl

\* onFocus={() => setShow(true)}
Focus ==
  /\ ~loading
  /\ show' = TRUE
  /\ event' = Handled
  /\ lookup' = NoLookup
  /\ UNCHANGED << domain, suggestions, index, ctrlTlds, timers, loading,
                  searches, shownFor >>
  /\ UNCHANGED outsideCtrl

\* A click on one of the rows of the open box: choose writes the row, closes
\* the box and calls focus() on the input; when the input is enabled and
\* has lost the focus, its onFocus opens the box again.
Choose ==
  /\ show
  /\ \E i \in 1..Min(Len(suggestions), 8) :
       /\ domain' = suggestions[i]
       /\ event' = Event("choose", suggestions[i], << >>, FALSE)
  /\ \E focused \in BOOLEAN : show' = (~loading /\ ~focused)
  /\ timers' = rescheduled(timers, domain', ctrlTlds, domain' # domain)
  /\ lookup' = NoLookup
  /\ UNCHANGED << suggestions, index, ctrlTlds, loading, searches,
                  shownFor >>
  /\ UNCHANGED outsideCtrl

\* setTimeout(onSearch, 0) runs: handleLookup of the render that set it calls
\* handleLookupWithDomain with that render's domain.
SearchFire ==
  /\ \E s \in searches :
       /\ searches' = searches \ { s }
       /\ lookup' = [ made |-> TRUE, arg |-> s.captured,
                      written |-> s.written ]
       /\ loading' = IF trim(s.captured) # << >> /\ validateDomain(s.captured)
                     THEN TRUE ELSE loading
  /\ event' = Handled
  /\ UNCHANGED << domain, suggestions, show, index, ctrlTlds, timers,
                  shownFor >>
  /\ UNCHANGED outsideCtrl

\* The lookup request comes back: finally { setLoading(false) }.
LookupSettle ==
  /\ loading
  /\ loading' = FALSE
  /\ event' = Handled
  /\ lookup' = NoLookup
  /\ UNCHANGED << domain, suggestions, show, index, ctrlTlds, timers,
                  searches, shownFor >>
  /\ UNCHANGED outsideCtrl

CtrlNext ==
  \/ Type
  \/ Paste
  \/ DebounceFire
  \/ LabelLoad
  \/ ArrowDown
  \/ ArrowUp
  \/ Enter
  \/ ClickSearch
  \/ Escape
  \/ ClickOutside
  \/ Focus
  \/ Choose
  \/ SearchFire
  \/ LookupSettle

CtrlSpec == CtrlInit /\ [][CtrlNext]_vars

(***************************************************************************)
(* The query cache: getFromCache, saveToCache, clearCache                  *)
(***************************************************************************)
\* Bounds.  MAX_CACHE_SIZE is 50 entries and CACHE_DURATION 30 minutes in
\* the source; the model keeps the names and scales the values.
MAX_CACHE_SIZE == 2
CACHE_DURATION == 1
MaxNow == 3

\* The domains passed to the cache.
CacheDomains ==
  { << "a" >>, << "A", " " >>, << "w" >>, << "h" >>, << "b" >> }

\* domain.toLowerCase().trim()
normalizedDomain(d) == trim(toLowerCase(d))

Entry(key, timestamp, whoisData) ==
  [ key |-> key, timestamp |-> timestamp, whoisData |-> whoisData ]

HasKey(entries, key) == \E i \in 1..Len(entries) : entries[i].key = key

\* cache[key] of an object that has the key.
Lookup(entries, key) ==
  entries[CHOOSE i \in 1..Len(entries) : entries[i].key = key]

\* delete cache[key]
Delete(entries, key) == SelectSeq(entries, LAMBDA e : e.key # key)

\* cache[key] = entry: in place for a key the object has, else at the end.
Assign(entries, entry) ==
  IF HasKey(entries, entry.key)
  THEN [ i \in 1..Len(entries) |->
           IF entries[i].key = entry.key THEN entry ELSE entries[i] ]
  ELSE Append(entries, entry)

\* entries.sort((a, b) => b[1].timestamp - a[1].timestamp): stable, newest
\* first.
RECURSIVE insertByNewest(_, _)
insertByNewest(sorted, e) ==
  IF sorted = << >> THEN << e >>
  ELSE IF Head(sorted).timestamp >= e.timestamp
       THEN << Head(sorted) >> \o insertByNewest(Tail(sorted), e)
       ELSE << e >> \o sorted

RECURSIVE sortByNewest(_)
sortByNewest(entries) ==
  IF entries = << >> THEN << >>
  ELSE insertByNewest(sortByNewest(SubSeq(entries, 1, Len(entries) - 1)),
                      entries[Len(entries)])

\* A slip: the entries are cut without being sorted.
firstEntries(entries) ==
  IF Len(entries) >= MAX_CACHE_SIZE
  THEN Take(entries, MAX_CACHE_SIZE - 1)
  ELSE entries

\* if (entries.length >= MAX_CACHE_SIZE): sort and slice(0, MAX_CACHE_SIZE - 1)
newestEntries(entries) ==
  IF Len(entries) >= MAX_CACHE_SIZE
  THEN Take(sortByNewest(entries), MAX_CACHE_SIZE - 1)
  ELSE entries

\* A slip: the entry is expired after twice the duration.
isExpiredLate(time, timestamp) ==
  time - timestamp > CACHE_DURATION + CACHE_DURATION

\* Date.now() - cached.timestamp > CACHE_DURATION
isExpired(time, timestamp) == time - timestamp > CACHE_DURATION

CacheInit ==
  /\ cache = << >>
  /\ now = 0
  /\ cacheOp = CacheOp("none", << >>, NULL, << >>)
  /\ NormIdle
  /\ SuggestIdle
  /\ CallsIdle
  /\ FetchIdle
  /\ CtrlIdle
  /\ RecentIdle
  /\ LookupIdle

\* Time passes.
Tick ==
  /\ now < MaxNow
  /\ now' = now + 1
  /\ cacheOp' = CacheOp("tick", << >>, NULL, cache)
  /\ UNCHANGED cache
  /\ UNCHANGED outsideCache

saveToCache ==
  /\ \E d \in CacheDomains :
       /\ cache' = Assign(newestEntries(cache),
                          Entry(normalizedDomain(d), now, d))
       /\ cacheOp' = CacheOp("save", d, NULL, cache)
  /\ UNCHANGED now
  /\ UNCHANGED outsideCache

getFromCache ==
  /\ \E d \in CacheDomains :
       LET key == normalizedDomain(d)
       IN  IF ~HasKey(cache, key)
           THEN /\ cacheOp' = CacheOp("get", d, NULL, cache)
                /\ UNCHANGED cache
           ELSE IF isExpired(now, Lookup(cache, key).timestamp)
           THEN /\ cache' = Delete(cache, key)
                /\ cacheOp' = CacheOp("get", d, NULL, cache)
           ELSE /\ cacheOp' = CacheOp("get", d, Lookup(cache, key), cache)
                /\ UNCHANGED cache
  /\ UNCHANGED now
  /\ UNCHANGED outsideCache

clearCache ==
  /\ cache' = << >>
  /\ cacheOp' = CacheOp("clear", << >>, NULL, cache)
  /\ UNCHANGED now
  /\ UNCHANGED outsideCache

CacheNext == Tick \/ saveToCache \/ getFromCache \/ clearCache

CacheSpec == CacheInit /\ [][CacheNext]_vars

(***************************************************************************)
(* The recent-query list: addRecentQuery, removeRecentQuery                *)
(***************************************************************************)
\* Bounds.  The list is cut to 50 entries by the first module and to
\* MAX_RECENT_QUERIES = 10 by the second; the model scales both.
FIRST_MAX_QUERIES == 3
MAX_RECENT_QUERIES == 2

RecentCap(v) == IF v = "first" THEN FIRST_MAX_QUERIES ELSE MAX_RECENT_QUERIES

\* The domains passed to the list.
RecentDomains ==
  { << "a" >>, << "A" >>, << "w" >>, << "h" >>, << "b" >>, << "c" >> }

\* A slip: the comparison without toLowerCase.
sameDomainExactly(stored, d) == stored = d

\* q.domain.toLowerCase() !== domain.toLowerCase(), negated.
sameDomain(stored, d) == toLowerCase(stored) = toLowerCase(d)

\* queries.filter(q => q.domain.toLowerCase() !== domain.toLowerCase())
withoutDomain(qs, d) == SelectSeq(qs, LAMBDA q : ~sameDomain(q.domain, d))

RecentInit ==
  /\ variant \in { "first", "second" }
  /\ queries = << >>
  /\ recentOp = RecentOp("none", << >>)
  /\ NormIdle
  /\ SuggestIdle
  /\ CallsIdle
  /\ FetchIdle
  /\ CtrlIdle
  /\ CacheIdle
  /\ LookupIdle

\* Time passes between two calls.
RecentTick ==
  /\ now < MaxNow
  /\ now' = now + 1
  /\ recentOp' = RecentOp("tick", << >>)
  /\ UNCHANGED << variant, queries >>
  /\ UNCHANGED outsideRecent

\* filter, unshift of the lower-cased domain, slice to the cap.
addRecentQuery ==
  /\ \E d \in RecentDomains :
       /\ queries' =
            Take(<< [ domain |-> toLowerCase(d), timestamp |-> now ] >>
                   \o withoutDomain(queries, d),
                 RecentCap(variant))
       /\ recentOp' = RecentOp("add", d)
  /\ UNCHANGED << variant, now >>
  /\ UNCHANGED outsideRecent

\* removeRecentQuery of the second module.
removeRecentQuery ==
  /\ variant = "second"
  /\ queries # << >>
  /\ \E d \in RecentDomains :
       /\ queries' = withoutDomain(queries, d)
       /\ recentOp' = RecentOp("remove", d)
  /\ UNCHANGED << variant, now >>
  /\ UNCHANGED outsideRecent

RecentNext == RecentTick \/ addRecentQuery \/ removeRecentQuery

RecentSpec == RecentInit /\ [][RecentNext]_vars

(***************************************************************************)
(* DomainLookup: lookups from the search field and from a selection        *)
(***************************************************************************)
\* Bound: the number of lookups made.
MaxLookups == 3

\* Domains that pass validateDomain.
LookupDomains ==
  { << "a", ".", "c", "o" >>, << "b", ".", "i", "o" >> }

\* What handleLookupWithDomain does before its request: setError(''),
\* setResult(null), the two tests, setLoading(true).
StartLookup(d, via) ==
  /\ Len(lookups) < MaxLookups
  /\ trim(d) # << >>
  /\ validateDomain(d)
  /\ domain' = d
  /\ shown' = NothingShown
  /\ loading' = TRUE
  /\ lookups' = Append(lookups, [ domain |-> d, via |-> via, pending |-> TRUE ])
  /\ UNCHANGED outsideLookup

LookupInit ==
  /\ lookups = << >>
  /\ shown = NothingShown
  /\ NormIdle
  /\ SuggestIdle
  /\ CallsIdle
  /\ FetchIdle
  /\ CtrlIdle
  /\ CacheIdle
  /\ RecentIdle

\* A submit of the search field, which is disabled while loading is set.
LookupFromField ==
  /\ ~loading
  /\ \E d \in LookupDomains : StartLookup(d, "field")

\* A history or favorite entry is selected: the initialDomain effect.
LookupFromSelection ==
  \E d \in LookupDomains :
    /\ d # domain
    /\ StartLookup(d, "selection")

\* The response of a call arrives: setResult or setError, then
\* finally { setLoading(false) }.
Respond ==
  /\ \E i \in 1..Len(lookups) :
       /\ lookups[i].pending
       /\ lookups' = [ lookups EXCEPT ![i].pending = FALSE ]
       /\ \E kind \in { "result", "error" } :
            shown' = [ kind |-> kind, of |-> i ]
  /\ loading' = FALSE
  /\ UNCHANGED domain
  /\ UNCHANGED outsideLookup

LookupNext == LookupFromField \/ LookupFromSelection \/ Respond

LookupSpec == LookupInit /\ [][LookupNext]_vars

(***************************************************************************)
(* Properties of the normaliser                                            *)
(***************************************************************************)
LabelCount(v) == Count(v, ".") + 1

\* C1: extractDomain is idempotent: normalising a normalised value again
\* gives the same value.
C1_Idempotent == stage = "renormalized" => again = canon

\* C2: extractDomain returns a string whose characters are all in
\* [a-z0-9.-], and the empty string for the empty input.
C2_CanonicalCharset ==
  stage = "normalized" =>
    /\ \A i \in 1..Len(canon) : canon[i] \in LegalChars
    /\ raw = << >> => canon = << >>

C2_Witness ==
  /\ stage = "normalized"
  /\ \E i \in 1..Len(raw) : raw[i] \notin LegalChars
  /\ Len(canon) >= 2

\* C3: scheme + "www." + h + "/" + p normalises to h, for a canonical
\* hostname h of at most five labels that does not start with "www.".
C3_UrlStripping ==
  (stage = "normalized" /\ given.form = "url") => canon = given.host

C3_Witness ==
  /\ stage = "normalized"
  /\ given.form = "url"
  /\ Includes(Tail(given.tail), "@")
  /\ canon = given.host

\* C4 as stated: l + "@" + h normalises to h for any local part l.
C4_EmailStripping ==
  (stage = "normalized" /\ given.form = "email") => canon = given.host

\* C4 amended: l + "@" + h normalises to h for any local part l without
\* a "/": the text is cut at the first "/" before the last "@" is looked for.
C4_EmailStrippingNoSlash ==
  (stage = "normalized" /\ given.form = "email"
     /\ ~Includes(given.head, "/")) => canon = given.host

C4_Witness ==
  /\ stage = "normalized"
  /\ given.form = "email"
  /\ Includes(given.head, "@")
  /\ ~Includes(given.head, "/")
  /\ LabelCount(given.host) >= 2
  /\ canon = given.host

\* C5 as stated: two labels a and b separated by full-width or Chinese
\* punctuation standing for "." or by white space normalise to a.b.
C5_PunctuationNormalization ==
  (stage = "normalized" /\ given.form = "sep") =>
    canon = given.head \o << "." >> \o given.host

\* C5 amended: two labels a and b separated by a run of U+FF0C, U+3002 and
\* white space normalise to a.b.
C5_ChinesePunctuation ==
  (stage = "normalized" /\ given.form = "sep"
     /\ \A i \in 1..Len(given.mid) :
          given.mid[i] \in ChinesePunct \cup SpaceChars) =>
    canon = given.head \o << "." >> \o given.host

C5_Witness ==
  /\ stage = "normalized"
  /\ given.form = "sep"
  /\ given.mid = << "U+3002", " " >>
  /\ canon = given.head \o << "." >> \o given.host

\* C6: when the sanitised input has more than five labels the result is its
\* last four labels, otherwise it is the sanitised input itself.
C6_LabelTruncation ==
  stage = "normalized" =>
    LET s == sanitize(raw)
    IN  /\ LabelCount(s) <= 5 => canon = s
        /\ LabelCount(s) > 5 =>
             /\ LabelCount(canon) = 4
             /\ IsSuffix(<< "." >> \o canon, s)
        /\ raw = ABCDEF => canon = CDEF

C6_Witness ==
  /\ stage = "normalized"
  /\ LabelCount(sanitize(raw)) = 6
  /\ LabelCount(canon) = 4

\* C7: a normalised value has at most four labels.
C7_AtMostFourLabels ==
  /\ stage = "normalized" => LabelCount(canon) <= 4
  /\ stage = "cleaned" => LabelCount(cleaned) <= 4

\* C8 as stated: autoTld(d) is d when d contains a ".", else d + ".com".
C8_AutoTld ==
  stage = "completed" =>
    completed = IF Includes(canon, ".") THEN canon ELSE canon \o DOTCOM

\* C8 amended: for a non-empty d, autoTld(d) is d when d contains a ".",
\* else d + ".com"; autoTld of the empty string is the empty string.
C8_AutoTldNonEmpty ==
  stage = "completed" =>
    completed = IF canon = << >> \/ Includes(canon, ".")
                THEN canon
                ELSE canon \o DOTCOM

C8_Witness ==
  /\ stage = "completed"
  /\ canon = EXAMPLE
  /\ completed = EXAMPLE_COM

(***************************************************************************)
(* Properties of getSuggestions                                            *)
(***************************************************************************)
IsCommon(l) == \E i \in 1..Len(COMMON_TLDS) : COMMON_TLDS[i] = l

\* l comes before m in the priority order: the priority labels first, in
\* the order of the priority list, then the other labels in lexical order.
PriorityBefore(l, m) ==
  \/ IsCommon(l) /\ ~IsCommon(m)
  \/ /\ IsCommon(l)
     /\ IsCommon(m)
     /\ indexOf(COMMON_TLDS, l) < indexOf(COMMON_TLDS, m)
  \/ ~IsCommon(l) /\ ~IsCommon(m) /\ localeCompare(l, m) < 0

\* The labels of S in priority order.
RECURSIVE PriorityOrder(_)
PriorityOrder(S) ==
  IF S = { } THEN << >>
  ELSE LET first == CHOOSE l \in S :
                      \A m \in S \ { l } : PriorityBefore(l, m)
       IN  << first >> \o PriorityOrder(S \ { first })

TldSet == { allTlds[i] : i \in 1..Len(allTlds) }

IsCanonical(v) == \A i \in 1..Len(v) : v[i] \in LegalChars

WithPrefix(prefix, ls) ==
  [ i \in 1..Len(ls) |-> prefix \o << "." >> \o ls[i] ]

\* C9 as stated: for a non-empty input without a dot the result is
\* input.label for all labels of the list in priority order, cut to max.
C9_NameSuggestions ==
  (called /\ input # << >> /\ IsCanonical(input) /\ ~Includes(input, ".")) =>
    result = Take(WithPrefix(input, PriorityOrder(TldSet)), maxResults)

\* C9 amended: for a non-empty input without a dot the result is, cut to
\* max: input.input first when the input is itself a label of the list, then
\* input.label for the priority labels the list has, in priority order and
\* without the input's own label again; no other label is suggested.
C9_CommonNameSuggestions ==
  (called /\ input # << >> /\ IsCanonical(input) /\ ~Includes(input, ".")) =>
    LET own == IF input \in TldSet THEN << input >> ELSE << >>
        common == SelectSeq(COMMON_TLDS,
                            LAMBDA l : l \in TldSet /\ l # input)
    IN  result = Take(WithPrefix(input, own \o common), maxResults)

C9_Witness ==
  /\ called
  /\ input = << "i", "o" >>
  /\ maxResults = 2
  /\ << "x", "y", "z" >> \in TldSet
  /\ result = << << "i", "o", ".", "i", "o" >>,
                 << "i", "o", ".", "c", "o", "m" >> >>

\* C10: for prefix.partial with a non-empty prefix the result is the first
\* max of prefix.label for all labels starting with partial, in priority
\* order, however many labels match.
C10_PartialLabelFilter ==
  (called /\ IsCanonical(input) /\ Includes(input, ".")) =>
    LET parts == Split(input, ".")
        prefix == Join(SubSeq(parts, 1, Len(parts) - 1), << "." >>)
        partial == parts[Len(parts)]
        matching == { l \in TldSet : IsPrefix(partial, l) }
    IN  prefix # << >> =>
          result =
            Take(WithPrefix(prefix, PriorityOrder(matching)), maxResults)

(***************************************************************************)
(* Properties of repeated calls                                            *)
(***************************************************************************)
\* C11: a call with the input, the label list and the max of an earlier call
\* returns what the earlier call returned, whatever was called in between.
C11_SuggestionDeterminism ==
  (called /\ noted.made /\ input = noted.input
     /\ maxResults = noted.maxResults /\ loaded = noted.labels) =>
    result = noted.result

C11_Witness ==
  /\ ncalls = 3
  /\ noted.made
  /\ noted.at = 1
  /\ input = noted.input
  /\ maxResults = noted.maxResults
  /\ loaded = noted.labels
  /\ Len(loaded) >= 3
  /\ Len(result) = 1
  /\ result = noted.result

(***************************************************************************)
(* Properties of the label fetch                                           *)
(***************************************************************************)
\* C17: at most one request is ever sent, whatever the order of mounts and
\* of the answer, and once a list is cached every mounted hook has it.
C17_FetchedOnce ==
  /\ fetchCount <= 1
  /\ \A h \in Hook :
       (~cachedTlds.null /\ hooks[h].phase = "settled") =>
         hooks[h].allTlds = cachedTlds.tlds

C17_Witness ==
  /\ fetchCount = 1
  /\ ~cachedTlds.null
  /\ Len(cachedTlds.tlds) = 3
  /\ \E h, k \in Hook :
       /\ hooks[h].phase = "settled" /\ ~hooks[h].late
       /\ hooks[k].phase = "settled" /\ hooks[k].late
       /\ hooks[k].allTlds = cachedTlds.tlds

\* C18: after a failed request (an error result or an exception) the promise
\* is fulfilled with the empty list, no hook sees a rejection, every hook
\* that got its answer has the empty list, and no second request is sent.
C18_FailureAbsorbed ==
  outcome \in { "error", "throw" } =>
    /\ cachePromise = Promise("fulfilled", << >>)
    /\ fetchCount = 1
    /\ \A h \in Hook :
         /\ hooks[h].phase # "failed"
         /\ hooks[h].phase = "settled" => hooks[h].allTlds = << >>

C18_Witness ==
  /\ outcome = "throw"
  /\ fetchCount = 1
  /\ \E h, k \in Hook :
       /\ hooks[h].phase = "settled" /\ ~hooks[h].late
       /\ hooks[k].phase = "settled" /\ hooks[k].late
       /\ hooks[k].allTlds = << >>

(***************************************************************************)
(* Properties of the input controller                                      *)
(***************************************************************************)
\* C12: in every state the selection index is at least -1 and at most the
\* last position of the current suggestion list.
C12_IndexInRange == -1 <= index /\ index <= Len(suggestions) - 1

\* C13: after a paste of text t the field value is extractDomain(t),
\* whatever the field held before.
C13_PasteReplaces ==
  event.kind = "paste" => domain = extractDomain(event.text)

C13_Witness ==
  /\ event.kind = "paste"
  /\ event.before = << "a", "c" >>
  /\ event.text = << "x", ".", "c", "o", "m" >>
  /\ domain = << "x", ".", "c", "o", "m" >>

\* C14: the lookup that onSearch performs after a submit gets the finalized
\* domain that the submit wrote.
C14_LookupUsesFinalized == lookup.made => lookup.arg = lookup.written

\* C15: at most one debounce timer is pending, and after a change of the
\* field value by typing or paste it is the one set for the new value.
C15_OnePendingDebounce ==
  /\ Cardinality(timers) <= 1
  /\ (event.kind \in { "type", "paste" } /\ domain # event.before) =>
       timers = { Timer(domain, ctrlTlds) }

C15_Witness ==
  /\ event.kind = "type"
  /\ event.pending
  /\ event.before = << "a" >>
  /\ domain = << "a", "c" >>
  /\ timers = { Timer(domain, ctrlTlds) }

\* C16: whenever the suggestion box is visible, the list in it was computed
\* from the current field value.
C16_ShownForCurrentValue ==
  (show /\ suggestions # << >>) => shownFor = domain

\* C16, amended: a pending debounce timer is always the one of the current
\* field value, so a computation for a superseded value never fires; and
\* when the box is visible and no timer is pending, the list in it was
\* computed from the current field value.
C16_ShownForCurrentOnceFired ==
  /\ \A tm \in timers : tm.domain = domain
  /\ (show /\ suggestions # << >> /\ timers = { }) => shownFor = domain

C16_Witness ==
  /\ event.kind = "debounce"
  /\ timers = { }
  /\ show
  /\ suggestions = << << "a", "c", ".", "c", "o", "m" >>,
                      << "a", "c", ".", "i", "o" >> >>
  /\ shownFor = << "a", "c" >>
  /\ domain = << "a", "c" >>

\* A text of letters, digits and hyphens only.
DotFree(text) ==
  \A i \in 1..Len(text) : text[i] \in LegalChars \ { "." }

\* C19: typing or pasting a text without a dot leaves a field value without
\* a dot (no '.com' is appended), and a debounce firing leaves the field
\* value as it is.
C19_AutoTldOnlyOnSubmit ==
  [][ /\ (event'.kind \in { "type", "paste" } /\ DotFree(event'.text)) =>
           ~Includes(domain', ".")
      /\ event'.kind = "debounce" => domain' = domain ]_vars

C19_Witness ==
  /\ event.kind = "type"
  /\ event.text = << "a", "c" >>
  /\ domain = << "a", "c" >>

\* C20: the field value is never undefined.
C20_FieldIsString == domain # UNDEFINED

\* C21: a debounce firing, which regenerates the suggestion list, leaves the
\* selection index at -1, also when the regenerated list is empty.
C21_IndexResetOnRegenerate == event.kind = "debounce" => index = -1

\* C22: Enter leaves the controller Idle; while Suggesting with a highlighted
\* row it writes that row and sets no search to run, and otherwise, with a
\* field that is not empty, it writes the completed value and sets onSearch
\* to run.
C22_Enter ==
  [][ event'.kind = "enter" =>
        /\ Idle'
        /\ IF Suggesting /\ index >= 0
           THEN /\ domain' = at(suggestions, index)
                /\ domain' # UNDEFINED
                /\ searches' = searches
           ELSE extractDomainOf(domain) # << >> =>
                  /\ domain' = autoTld(extractDomainOf(domain))
                  /\ searches' # searches ]_vars

\* C23: after a click on a suggestion the field value is that suggestion
\* and the controller is Idle.
C23_ChooseClosesBox ==
  event.kind = "choose" => (domain = event.text /\ Idle)

\* C24: Escape leaves the controller Idle and the field value, the
\* suggestion list and the selection index as they were.
C24_Escape ==
  [][ event'.kind = "escape" =>
        /\ Idle'
        /\ domain' = domain
        /\ suggestions' = suggestions
        /\ index' = index ]_vars

C24_Witness ==
  /\ event.kind = "escape"
  /\ ~show
  /\ index = 1
  /\ Len(suggestions) = 2
  /\ domain = << "a" >>

(***************************************************************************)
(* Further properties of the normaliser                                    *)
(***************************************************************************)
Schemes == { HTTP, HTTPS, FTP }

\* The name of a scheme: what [^a-z0-9.-] keeps of "http:".
SchemeName(s) == SubSeq(s, 1, Len(s) - 3)

\* Text of letters and digits, as it stands after toLowerCase and trim.
IsPlain(x) == \A i \in 1..Len(x) : x[i] \in LowerChars \cup DigitChars

\* The occurrences of a scheme in the lower-cased, trimmed raw input: the
\* text before, the scheme and the text after.
Occurrences ==
  LET low == trim(toLowerCase(raw))
  IN  { [ before |-> SubSeq(low, 1, i), scheme |-> s,
          after |-> Drop(low, i + Len(s)) ] :
          i \in { j \in 0..Len(low) :
                    \E t \in Schemes : IsPrefix(t, Drop(low, j)) },
          s \in { t \in Schemes : \E j \in 0..Len(low) :
                                    IsPrefix(t, Drop(low, j)) } }
        \cap
      { o \in [ before : { SubSeq(low, 1, i) : i \in 0..Len(low) },
                scheme : Schemes,
                after : { Drop(low, i) : i \in 0..Len(low) } ] :
          o.before \o o.scheme \o o.after = low }

\* C25: only a leading scheme is stripped, and only one: a scheme after
\* plain text stays (its name is what is left of it once the path is cut),
\* and of two leading schemes the second stays.
C25_LeadingSchemeOnly ==
  stage = "normalized" =>
    \A o \in Occurrences :
      /\ (o.before # << >> /\ IsPlain(o.before)) =>
           canon = o.before \o SchemeName(o.scheme)
      /\ (o.before \in Schemes) => canon = SchemeName(o.scheme)

\* C25, amended: every occurrence of a scheme is removed, wherever it
\* stands: with plain text before and after an occurrence the result is the
\* normalisation of the two joined, and after two leading schemes it is the
\* normalisation of the rest.
C25_EverySchemeStripped ==
  stage = "normalized" =>
    \A o \in Occurrences :
      /\ (IsPlain(o.before) /\ IsPlain(o.after)) =>
           canon = extractDomain(o.before \o o.after)
      /\ (o.before \in Schemes /\ IsPlain(o.after)) =>
           canon = extractDomain(o.after)

C25_Witness ==
  /\ stage = "normalized"
  /\ raw = << "a" >> \o HTTP \o << "1" >>
  /\ canon = << "a", "1" >>

\* C26: when the hostname of the raw input is made of legal characters and
\* of at least one letter outside ASCII (U+00E9), the result is the
\* IDN-to-ASCII transform of the hostname, or the hostname itself when the
\* transform fails.
C26_IdnToAscii ==
  LET h == hostPart(raw)
  IN  ( /\ stage = "normalized"
        /\ Includes(h, "U+00E9")
        /\ \A i \in 1..Len(h) : h[i] \in LegalChars \cup { "U+00E9" }
        /\ mergeDots(h) = h
        /\ limitParts(h) = h ) =>
        canon \in { toASCII(h), h }

(***************************************************************************)
(* Properties of the query cache                                           *)
(***************************************************************************)
Entries(seq) == { seq[i] : i \in 1..Len(seq) }

Keys(seq) == { seq[i].key : i \in 1..Len(seq) }

\* The entries a save dropped and the entries it kept, the entry of the
\* saved key aside.
Evicted ==
  { e \in Entries(cacheOp.before) :
      e.key \notin Keys(cache) \cup { normalizedDomain(cacheOp.arg) } }

Kept ==
  { e \in Entries(cacheOp.before) :
      e.key \in Keys(cache) \ { normalizedDomain(cacheOp.arg) } }

\* C27: the cache never holds more than MAX_CACHE_SIZE entries, and every
\* entry a save keeps is at least as recent as every entry it evicts.
C27_BoundedNewestKept ==
  /\ Len(cache) <= MAX_CACHE_SIZE
  /\ cacheOp.kind = "save" =>
       \A e \in Evicted : \A k \in Kept : k.timestamp >= e.timestamp

C27_Witness ==
  /\ cacheOp.kind = "save"
  /\ Len(cacheOp.before) = MAX_CACHE_SIZE
  /\ Len(cache) = MAX_CACHE_SIZE
  /\ \E e \in Evicted : \E k \in Kept : k.timestamp > e.timestamp

\* C28: getFromCache returns an entry only when it is the stored entry of
\* the normalised domain, saved under a domain with that normal form, and
\* not older than CACHE_DURATION; when the stored entry is older it returns
\* null and removes that entry and no other; otherwise the store is as it
\* was.
C28_NoExpiredEntry ==
  cacheOp.kind = "get" =>
    LET key == normalizedDomain(cacheOp.arg)
        before == cacheOp.before
    IN  /\ cacheOp.returned # NULL =>
             /\ cacheOp.returned \in Entries(before)
             /\ cacheOp.returned.key = key
             /\ normalizedDomain(cacheOp.returned.whoisData) = key
             /\ now - cacheOp.returned.timestamp <= CACHE_DURATION
             /\ cache = before
        /\ cacheOp.returned = NULL =>
             IF HasKey(before, key)
             THEN /\ now - Lookup(before, key).timestamp > CACHE_DURATION
                  /\ cache = Delete(before, key)
             ELSE cache = before

C28_Witness ==
  /\ cacheOp.kind = "get"
  /\ cacheOp.returned = NULL
  /\ Len(cacheOp.before) = 2
  /\ Len(cache) = 1
  /\ HasKey(cacheOp.before, normalizedDomain(cacheOp.arg))

C30_LastLookupShown ==
  (lookups # << >> /\ \A i \in 1..Len(lookups) : ~lookups[i].pending) =>
    shown.of = Len(lookups)

=============================================================================
